---- MODULE Spec2Model ----
(***************************************************************************)
(* Model of the dataset aggregation of the Mythic Art Explorer             *)
(* (src/app.py, extract_stats): the fold of a list of MET object records   *)
(* into years, medium / culture / classification / tag tables, vessel      *)
(* examples, accession years and the Greek / Roman / other counts.         *)
(* With it, the page code around it: the repeated calls of extract_stats,  *)
(* the detail modal of the Gallery page and the merge of the alias         *)
(* searches of a fetch.                                                    *)
(*                                                                         *)
(* Python values are records [t |-> type, v |-> payload]; a Python string  *)
(* is a sequence of one-character strings, so that lower(), strip(), the   *)
(* substring tests and the regular expression are computed, not assumed.   *)
(***************************************************************************)
EXTENDS Integers, Sequences, FiniteSets, TLC

VARIABLES ds, i, pc, years, mediums, cultures, classes, tags, vases, acqs, gvr, result

\* the calls of extract_stats the page has completed, in order: the dataset
\* passed, how the call ended and what it returned (line 369, one call per
\* run of the page script)
VARIABLE runs

\* the Gallery page: st.session_state, the values of the two pagination
\* widgets, whether the last run of the script rendered the modal ("none",
\* "shown", "IndexError"), the objectID of the record it read at line 238 (0
\* when it read none), whether st.experimental_rerun() is pending, and the
\* widget whose click started the last run
VARIABLES session_state, per_page, page_idx, rendered, record, rerun, event

galleryVars == <<session_state, per_page, page_idx, rendered, record, rerun, event>>

\* the merge of the searches of a fetch: the figure selected and the value of
\* the max_results slider, the number of aliases searched so far, all_ids,
\* where the handler stands ("idle", "loop", "done"), and for each alias
\* searched the query, whether the search failed and the list
\* met_search_ids returned
VARIABLES figure, max_results, alias_i, all_ids, mpc, returned

mergeVars == <<figure, max_results, alias_i, all_ids, mpc, returned>>

\* what extract_stats has no access to
pageState == <<runs, galleryVars, mergeVars>>

vars == <<ds, i, pc, years, mediums, cultures, classes, tags, vases, acqs, gvr, result,
          pageState>>

(* ------------------------------ bounds -------------------------------- *)

\* longest dataset the model folds
MaxLen == 2

\* most calls of extract_stats in one session
MaxCalls == 3

\* most artworks a fetch of the gallery loads
MaxThumbs == 8

\* longest objectIDs list a search of the MET API answers with
MaxIds == 3

\* largest value of the max_results slider (the slider of the page goes
\* from 50 to 800; the model scales it to lists of MaxIds objectIDs)
MaxResults == 2

(* --------------------------- Python values ---------------------------- *)

PyNone == [t |-> "none", v |-> 0]
PyInt(n) == [t |-> "int", v |-> n]
\* a float, held in tenths: PyFloat(35) is 3.5
PyFloat(n) == [t |-> "float", v |-> n]
PyBool(b) == [t |-> "bool", v |-> IF b THEN 1 ELSE 0]
PyStr(s) == [t |-> "str", v |-> s]
PyList(xs) == [t |-> "list", v |-> xs]
PyDict(d) == [t |-> "dict", v |-> d]

\* the mapping with no key
EmptyDict == [k \in {} |-> PyNone]

\* dict.get(k): the value, None when the key is absent
Get(m, k) == IF k \in DOMAIN m THEN m[k] ELSE PyNone

\* Python truth value of an object
Truthy(x) ==
  CASE x.t = "none" -> FALSE
    [] x.t = "int" -> x.v # 0
    [] x.t = "float" -> x.v # 0
    [] x.t = "bool" -> x.v = 1
    [] x.t = "str" -> Len(x.v) > 0
    [] x.t = "list" -> Len(x.v) > 0
    [] x.t = "dict" -> DOMAIN x.v # {}

\* a or b
Or(a, b) == IF Truthy(a) THEN a ELSE b

\* isinstance(x, int): bool is a subclass of int
IsInstanceInt(x) == x.t \in {"int", "bool"}

(* ------------------------------ strings ------------------------------- *)

UpperCase == <<"A", "B", "C", "D", "E", "F", "G", "H", "I", "J", "K", "L", "M", "N", "O", "P", "Q", "R", "S", "T", "U", "V", "W", "X", "Y", "Z">>
LowerCase == <<"a", "b", "c", "d", "e", "f", "g", "h", "i", "j", "k", "l", "m", "n", "o", "p", "q", "r", "s", "t", "u", "v", "w", "x", "y", "z">>
Digits == <<"0", "1", "2", "3", "4", "5", "6", "7", "8", "9">>
Whitespace == {" ", "\t", "\n", "\r"}

IsDigit(c) == \E k \in 1..Len(Digits) : Digits[k] = c
DigitVal(c) == (CHOOSE k \in 1..Len(Digits) : Digits[k] = c) - 1

LowerChar(c) ==
  IF \E k \in 1..Len(UpperCase) : UpperCase[k] = c
  THEN LowerCase[CHOOSE k \in 1..Len(UpperCase) : UpperCase[k] = c]
  ELSE c

\* str.lower()
Lower(s) == [k \in 1..Len(s) |-> LowerChar(s[k])]

\* str.strip(): leading and trailing whitespace removed
Strip(s) ==
  LET keep == {k \in 1..Len(s) : s[k] \notin Whitespace}
  IN IF keep = {} THEN << >>
     ELSE SubSeq(s, CHOOSE k \in keep : \A j \in keep : k <= j,
                    CHOOSE k \in keep : \A j \in keep : k >= j)

\* sub in s
Contains(s, sub) ==
  \E p \in 0..(Len(s) - Len(sub)) : SubSeq(s, p + 1, p + Len(sub)) = sub

\* any(k in s for k in keys)
ContainsAny(s, keys) == \E k \in keys : Contains(s, k)

\* characters that str.isdigit() accepts and int() does not: digits that are
\* no decimal digits, such as the superscripts
SuperscriptDigits == {"¹", "²", "³"}

\* str.isdigit()
IsDigitStr(s) ==
  Len(s) > 0 /\ \A k \in 1..Len(s) : IsDigit(s[k]) \/ s[k] \in SuperscriptDigits

\* int(s) succeeds on a string that isdigit() accepts: every character is a
\* decimal digit; otherwise int(s) raises ValueError
IntAccepts(s) == \A k \in 1..Len(s) : IsDigit(s[k])

RECURSIVE DecVal(_)
\* value of a sequence of decimal digits
DecVal(s) ==
  IF s = << >> THEN 0
  ELSE 10 * DecVal(SubSeq(s, 1, Len(s) - 1)) + DigitVal(s[Len(s)])

\* int(s) for s an optional "-" followed by digits
ParseInt(s) ==
  IF s[1] = "-" THEN 0 - DecVal(Tail(s)) ELSE DecVal(s)

RECURSIVE NatToStr(_)
NatToStr(n) ==
  IF n < 10 THEN <<Digits[n + 1]>>
  ELSE NatToStr(n \div 10) \o <<Digits[(n % 10) + 1]>>

IntToStr(n) == IF n < 0 THEN <<"-">> \o NatToStr(0 - n) ELSE NatToStr(n)

\* str(x) for the objects that occur as elements of a tags list
StrOf(x) ==
  CASE x.t = "str" -> x.v
    [] x.t = "none" -> <<"N", "o", "n", "e">>
    [] x.t = "int" -> IntToStr(x.v)
    [] x.t = "bool" -> IF x.v = 1 THEN <<"T", "r", "u", "e">> ELSE <<"F", "a", "l", "s", "e">>
    [] x.t = "float" ->
         (IF x.v < 0 THEN <<"-">> ELSE << >>)
           \o NatToStr((IF x.v < 0 THEN 0 - x.v ELSE x.v) \div 10)
           \o <<".">> \o NatToStr((IF x.v < 0 THEN 0 - x.v ELSE x.v) % 10)
    [] x.t = "list" /\ x.v = << >> -> <<"[", "]">>

(* -------------------- re.search(r"-?\d{1,4}", od) --------------------- *)

\* number of digits, at most n, that start at position p of s
RECURSIVE DigitRun(_, _, _)
DigitRun(s, p, n) ==
  IF n = 0 \/ p > Len(s) \/ ~IsDigit(s[p]) THEN 0
  ELSE 1 + DigitRun(s, p + 1, n - 1)

\* the match that starts at position p, << >> when there is none: the
\* optional sign is taken when a digit follows it, then up to four digits
MatchAt(s, p) ==
  IF s[p] = "-" /\ DigitRun(s, p + 1, 4) > 0
  THEN SubSeq(s, p, p + DigitRun(s, p + 1, 4))
  ELSE SubSeq(s, p, p + DigitRun(s, p, 4) - 1)

\* the scan from position p on: the first position with a match wins
RECURSIVE SearchFrom(_, _)
SearchFrom(s, p) ==
  IF p > Len(s) THEN << >>
  ELSE IF MatchAt(s, p) # << >> THEN MatchAt(s, p)
  ELSE SearchFrom(s, p + 1)

\* the scan from position p down: the last position with a match wins
RECURSIVE SearchBack(_, _)
SearchBack(s, p) ==
  IF p < 1 THEN << >>
  ELSE IF MatchAt(s, p) # << >> THEN MatchAt(s, p)
  ELSE SearchBack(s, p - 1)

\* ReSearch that returns the last match of the string, not the first
ReSearchLastMatch(od) == SearchBack(od, Len(od))

\* mo.group(0), << >> when mo is None
ReSearch(od) == SearchFrom(od, 1)

(* ------------------- extract_stats: the loop body --------------------- *)

\* The accumulators while one record is folded; raised is set when a
\* statement of the body raises, and the statements after it do not run
\* (each statement below starts by passing a raised s on unchanged).
Acc ==
  [years |-> years, mediums |-> mediums, cultures |-> cultures,
   classes |-> classes, tags |-> tags, vases |-> vases, acqs |-> acqs,
   gvr |-> gvr, raised |-> FALSE]

Raise(s) == [s EXCEPT !.raised = TRUE]

\* YearStep that searches objectDate first and reads objectBeginDate only
\* when the search finds nothing
YearStepDateFirst(m, s) ==
  IF s.raised THEN s ELSE
  LET y == Get(m, "objectBeginDate")
      od == Or(Get(m, "objectDate"), PyStr(<< >>))
  IN IF od.t # "str" THEN Raise(s)
     ELSE IF ReSearch(od.v) # << >>
          THEN [s EXCEPT !.years = Append(@, ParseInt(ReSearch(od.v)))]
     ELSE IF IsInstanceInt(y) THEN [s EXCEPT !.years = Append(@, y.v)]
     ELSE s

\* y = m.get("objectBeginDate"); the year, or the first number of objectDate
YearStep(m, s) ==
  IF s.raised THEN s ELSE
  LET y == Get(m, "objectBeginDate")
      od == Or(Get(m, "objectDate"), PyStr(<< >>))
  IN IF IsInstanceInt(y) THEN [s EXCEPT !.years = Append(@, y.v)]
     ELSE IF od.t # "str" THEN Raise(s)
     ELSE IF ReSearch(od.v) = << >> THEN s
     ELSE [s EXCEPT !.years = Append(@, ParseInt(ReSearch(od.v)))]

\* (m.get(key) or "") as an object, before .strip() / .lower() is called
TextField(m, key) == Or(Get(m, key), PyStr(<< >>))

\* med = (m.get("medium") or "").strip()
Med(m) == Strip(TextField(m, "medium").v)

\* MediumStep without "if med": the medium is appended even when it is empty
MediumStepKeepEmpty(m, s) ==
  IF s.raised THEN s ELSE
  IF TextField(m, "medium").t # "str" THEN Raise(s)
  ELSE [s EXCEPT !.mediums = Append(@, Lower(Med(m)))]

MediumStep(m, s) ==
  IF s.raised THEN s ELSE
  IF TextField(m, "medium").t # "str" THEN Raise(s)
  ELSE IF Med(m) # << >> THEN [s EXCEPT !.mediums = Append(@, Lower(Med(m)))]
  ELSE s

\* CultureStep that lower-cases the culture, as MediumStep does the medium
CultureStepLowered(m, s) ==
  IF s.raised THEN s ELSE
  IF TextField(m, "culture").t # "str" THEN Raise(s)
  ELSE IF Strip(TextField(m, "culture").v) # << >>
       THEN [s EXCEPT !.cultures = Append(@, Lower(Strip(TextField(m, "culture").v)))]
  ELSE s

\* cult = (m.get("culture") or "").strip()
CultureStep(m, s) ==
  IF s.raised THEN s ELSE
  IF TextField(m, "culture").t # "str" THEN Raise(s)
  ELSE IF Strip(TextField(m, "culture").v) # << >>
       THEN [s EXCEPT !.cultures = Append(@, Strip(TextField(m, "culture").v))]
  ELSE s

\* cl = (m.get("classification") or "").strip()
Cl(m) == Strip(TextField(m, "classification").v)

ClassStep(m, s) ==
  IF s.raised THEN s ELSE
  IF TextField(m, "classification").t # "str" THEN Raise(s)
  ELSE IF Cl(m) # << >> THEN [s EXCEPT !.classes = Append(@, Cl(m))]
  ELSE s

\* TagTerm that also strips the string it yields
TagTermStripped(it) ==
  LET term == IF it.t = "dict" THEN Get(it.v, "term") ELSE PyStr(StrOf(it))
  IN IF term.t = "str" THEN PyStr(Strip(term.v)) ELSE term

\* term = it.get("term") if isinstance(it,dict) else str(it)
TagTerm(it) == IF it.t = "dict" THEN Get(it.v, "term") ELSE PyStr(StrOf(it))

\* for it in t: ... if term: tags.append(term.lower())
RECURSIVE TagsLoop(_, _, _)
TagsLoop(t, k, s) ==
  IF k > Len(t) THEN s
  ELSE IF ~Truthy(TagTerm(t[k])) THEN TagsLoop(t, k + 1, s)
  ELSE IF TagTerm(t[k]).t # "str" THEN Raise(s)
  ELSE TagsLoop(t, k + 1, [s EXCEPT !.tags = Append(@, Lower(TagTerm(t[k]).v))])

\* t = m.get("tags") or []; only a list is walked
TagsStep(m, s) ==
  IF s.raised THEN s ELSE
  LET t == Or(Get(m, "tags"), PyList(<< >>))
  IN IF t.t = "list" THEN TagsLoop(t.v, 1, s) ELSE s

\* title = (m.get("title") or m.get("objectName") or "")
Title(m) == Or(Or(Get(m, "title"), Get(m, "objectName")), PyStr(<< >>))

VesselClassKeys == {<<"v", "a", "s", "e">>, <<"a", "m", "p", "h", "o", "r", "a">>, <<"p", "o", "t", "t", "e", "r", "y">>, <<"c", "e", "r", "a", "m", "i", "c">>, <<"t", "e", "r", "r", "a", "c", "o", "t", "t">>}
VesselMediumKeys == {<<"v", "a", "s", "e">>, <<"c", "e", "r", "a", "m", "i", "c">>, <<"t", "e", "r", "r", "a", "c", "o", "t", "t", "a">>, <<"e", "a", "r", "t", "h", "e", "n", "w", "a", "r", "e">>}

\* VesselTest with "and" between the two any(...) in place of "or"
VesselTestBothFields(cl, med) ==
  /\ ContainsAny(Lower(cl), VesselClassKeys)
  /\ ContainsAny(Lower(med), VesselMediumKeys)

\* the condition of line 353 on cl and med
VesselTest(cl, med) ==
  \/ ContainsAny(Lower(cl), VesselClassKeys)
  \/ ContainsAny(Lower(med), VesselMediumKeys)

\* DisplayLabel with cl and med swapped: title or med or cl
DisplayLabelMediumFirst(title, cl, med) == Or(Or(title, PyStr(med)), PyStr(cl))

\* title or cl or med
DisplayLabel(title, cl, med) == Or(Or(title, PyStr(cl)), PyStr(med))

\* VaseStep that appends an example only for a vessel record that has a title
VaseStepTitledOnly(m, s) ==
  IF s.raised THEN s ELSE
  IF VesselTest(Cl(m), Med(m)) /\ Truthy(Title(m))
  THEN [s EXCEPT !.vases = Append(@, DisplayLabel(Title(m), Cl(m), Med(m)))]
  ELSE s

VaseStep(m, s) ==
  IF s.raised THEN s ELSE
  IF VesselTest(Cl(m), Med(m))
  THEN [s EXCEPT !.vases = Append(@, DisplayLabel(Title(m), Cl(m), Med(m)))]
  ELSE s

\* acc = m.get("accessionYear")
AccStep(m, s) ==
  IF s.raised THEN s ELSE
  LET acc == Get(m, "accessionYear")
  IN IF IsInstanceInt(acc) THEN [s EXCEPT !.acqs = Append(@, acc.v)]
     ELSE IF acc.t = "str" /\ IsDigitStr(acc.v)
          THEN IF IntAccepts(acc.v) THEN [s EXCEPT !.acqs = Append(@, DecVal(acc.v))]
               ELSE Raise(s)
     ELSE s

\* Category with the title tested for every Greek keyword, as the period is
CategoryTitleAllKeys(period, tl) ==
  IF Contains(period, <<"r", "o", "m", "a", "n">>) \/ Contains(tl, <<"r", "o", "m", "a", "n">>) THEN "roman"
  ELSE IF \E k \in {<<"g", "r", "e", "e", "k">>, <<"c", "l", "a", "s", "s", "i", "c", "a", "l">>, <<"h", "e", "l", "l", "e", "n", "i", "s", "t", "i", "c">>} :
            Contains(period, k) \/ Contains(tl, k) THEN "greek"
  ELSE "other"

\* Category with the Greek test placed before the Roman test
CategoryGreekFirst(period, tl) ==
  IF \/ Contains(period, <<"g", "r", "e", "e", "k">>)
     \/ Contains(period, <<"c", "l", "a", "s", "s", "i", "c", "a", "l">>)
     \/ Contains(period, <<"h", "e", "l", "l", "e", "n", "i", "s", "t", "i", "c">>)
     \/ Contains(tl, <<"g", "r", "e", "e", "k">>) THEN "greek"
  ELSE IF Contains(period, <<"r", "o", "m", "a", "n">>) \/ Contains(tl, <<"r", "o", "m", "a", "n">>) THEN "roman"
  ELSE "other"

\* the if / elif / else of lines 361-363 on the lower-cased period and title
Category(period, tl) ==
  IF Contains(period, <<"r", "o", "m", "a", "n">>) \/ Contains(tl, <<"r", "o", "m", "a", "n">>) THEN "roman"
  ELSE IF \/ Contains(period, <<"g", "r", "e", "e", "k">>)
          \/ Contains(period, <<"c", "l", "a", "s", "s", "i", "c", "a", "l">>)
          \/ Contains(period, <<"h", "e", "l", "l", "e", "n", "i", "s", "t", "i", "c">>)
          \/ Contains(tl, <<"g", "r", "e", "e", "k">>) THEN "greek"
  ELSE "other"

\* GvrStep without the final else branch: a record that is neither Roman
\* nor Greek is counted nowhere
GvrStepNoElse(m, s) ==
  IF s.raised THEN s ELSE
  IF TextField(m, "period").t # "str" THEN Raise(s)
  ELSE IF Title(m).t # "str" THEN Raise(s)
  ELSE LET c == Category(Lower(TextField(m, "period").v), Lower(Title(m).v))
       IN IF c = "other" THEN s ELSE [s EXCEPT !.gvr[c] = @ + 1]

\* period = (m.get("period") or "").lower(); tl = title.lower(); gvr[...] += 1
GvrStep(m, s) ==
  IF s.raised THEN s ELSE
  IF TextField(m, "period").t # "str" THEN Raise(s)
  ELSE IF Title(m).t # "str" THEN Raise(s)
  ELSE LET c == Category(Lower(TextField(m, "period").v), Lower(Title(m).v))
       IN [s EXCEPT !.gvr[c] = @ + 1]

\* one pass of "for m in ds": the statements in order; once a statement has
\* raised, the statements after it leave the accumulators as they are
LoopBody(m, s0) ==
  GvrStep(m, AccStep(m, VaseStep(m, TagsStep(m, ClassStep(m, CultureStep(m,
    MediumStep(m, YearStep(m, s0))))))))

\* collections.Counter(xs)
Counter(xs) ==
  [x \in {xs[k] : k \in 1..Len(xs)} |-> Cardinality({k \in 1..Len(xs) : xs[k] = x})]

(* ------------------------------ actions ------------------------------- *)

\* a session in which the page script has not run yet
InitPage ==
  /\ runs = << >>
  /\ session_state = EmptyDict
  /\ per_page = 12 /\ page_idx = 1
  /\ rendered = "none" /\ record = 0 /\ rerun = FALSE /\ event = "none"
  /\ figure = <<"Z", "e", "u", "s">> /\ max_results = MaxResults
  /\ alias_i = 0 /\ all_ids = << >> /\ mpc = "idle" /\ returned = << >>

\* the locals of extract_stats as line 331 sets them
Locals331 ==
  [years |-> << >>, mediums |-> << >>, cultures |-> << >>, classes |-> << >>,
   tags |-> << >>, vases |-> << >>, acqs |-> << >>,
   gvr |-> [greek |-> 0, roman |-> 0, other |-> 0], raised |-> FALSE]

\* the first call of extract_stats of a session, at its first record
InitAcc ==
  /\ InitPage
  /\ i = 1
  /\ pc = "loop"
  /\ years = << >> /\ mediums = << >> /\ cultures = << >> /\ classes = << >>
  /\ tags = << >> /\ vases = << >> /\ acqs = << >>
  /\ gvr = [greek |-> 0, roman |-> 0, other |-> 0]
  /\ result = << >>

Assign(s) ==
  /\ years' = s.years /\ mediums' = s.mediums /\ cultures' = s.cultures
  /\ classes' = s.classes /\ tags' = s.tags /\ vases' = s.vases
  /\ acqs' = s.acqs /\ gvr' = s.gvr

\* the loop body runs to its end on record ds[i]
FoldRecord ==
  /\ pc = "loop" /\ i <= Len(ds)
  /\ ~LoopBody(ds[i], Acc).raised
  /\ Assign(LoopBody(ds[i], Acc))
  /\ i' = i + 1
  /\ UNCHANGED <<ds, pc, result, pageState>>

\* a statement of the loop body raises on record ds[i]: extract_stats is left
\* by the exception and returns nothing
RaiseInRecord ==
  /\ pc = "loop" /\ i <= Len(ds)
  /\ LoopBody(ds[i], Acc).raised
  /\ Assign(LoopBody(ds[i], Acc))
  /\ pc' = "raised"
  /\ UNCHANGED <<ds, i, result, pageState>>

\* the return statement after the last record
Return ==
  /\ pc = "loop" /\ i > Len(ds)
  /\ result' = [years |-> years, mediums |-> Counter(mediums),
                cultures |-> Counter(cultures), classes |-> Counter(classes),
                tags |-> Counter(tags), vases |-> vases, acqs |-> acqs, gvr |-> gvr]
  /\ pc' = "done"
  /\ UNCHANGED <<ds, i, years, mediums, cultures, classes, tags, vases, acqs, gvr, pageState>>

Next == FoldRecord \/ RaiseInRecord \/ Return

\* every dataset of at most MaxLen records drawn from recs
Datasets(recs) == UNION {[1..n -> recs] : n \in 0..MaxLen}

(* ------------------------------ datasets ------------------------------ *)

\* marks a key that a record does not have
Absent == [t |-> "absent", v |-> 0]

\* the record with the keys of f whose value is not Absent
Record(f) == [k \in {k \in DOMAIN f : f[k].t # "absent"} |-> f[k]]

\* Records of every shape: complete, partial, empty, and with fields of the
\* wrong type.
MixedRecords ==
  { EmptyDict,
    [objectBeginDate |-> PyInt(0 - 450), medium |-> PyStr(<<"M", "a", "r", "b", "l", "e">>),
     classification |-> PyStr(<<"S", "c", "u", "l", "p", "t", "u", "r", "e">>), period |-> PyStr(<<"C", "l", "a", "s", "s", "i", "c", "a", "l">>)],
    [objectDate |-> PyStr(<<"c", "a", ".", " ", "5", "3", "0", " ", "B", ".", "C", ".">>),
     medium |-> PyStr(<<"T", "e", "r", "r", "a", "c", "o", "t", "t", "a", ",", " ", "b", "l", "a", "c", "k", "-", "f", "i", "g", "u", "r", "e">>),
     classification |-> PyStr(<<"V", "a", "s", "e", "s">>),
     tags |-> PyList(<<PyDict([term |-> PyStr(<<"H", "e", "r", "a", "k", "l", "e", "s">>)])>>)],
    [period |-> PyStr(<<"R", "o", "m", "a", "n", " ", "I", "m", "p", "e", "r", "i", "a", "l">>), title |-> PyStr(<<"C", "o", "p", "y", " ", "a", "f", "t", "e", "r", " ", "a", " ", "G", "r", "e", "e", "k", " ", "b", "r", "o", "n", "z", "e">>)],
    [title |-> PyStr(<<"G", "r", "e", "e", "k", " ", "V", "a", "s", "e">>), culture |-> PyStr(<<" ", "G", "r", "e", "e", "k", " ">>),
     medium |-> PyStr(<<" ", "M", "A", "R", "B", "L", "E", " ">>), accessionYear |-> PyStr(<<"n", ".", "d", ".">>),
     tags |-> PyList(<<PyStr(<<"M", "y", "t", "h">>), PyDict([term |-> PyStr(<<"H", "e", "r", "a", "k", "l", "e", "s">>)])>>)],
    [accessionYear |-> PyStr(<<"1", "9", "2", "3">>)],
    [accessionYear |-> PyInt(1975), culture |-> PyStr(<<"g", "r", "e", "e", "k">>)],
    [accessionYear |-> PyFloat(195)],
    [tags |-> PyStr(<<"n", "o", "t", "-", "a", "-", "l", "i", "s", "t">>)],
    [tags |-> PyList(<<PyNone, PyInt(7), PyDict(EmptyDict)>>)],
    [medium |-> PyStr(<<" ">>), title |-> PyStr(<<>>), period |-> PyNone, tags |-> PyList(<< >>),
     objectDate |-> PyStr(<<"n", ".", "d", ".">>), accessionYear |-> PyStr(<<"n", ".", "d", ".">>)],
    [medium |-> PyInt(0), title |-> PyList(<< >>), objectBeginDate |-> PyBool(TRUE)],
    [objectDate |-> PyInt(530)],
    [objectBeginDate |-> PyInt(1700), objectDate |-> PyInt(530)],
    [medium |-> PyInt(5)],
    [culture |-> PyFloat(15)],
    [classification |-> PyBool(TRUE)],
    [title |-> PyInt(5), classification |-> PyStr(<<"V", "a", "s", "e", "s">>)],
    [period |-> PyList(<<PyStr(<<"R", "o", "m", "a", "n">>)>>)],
    [tags |-> PyList(<<PyStr(<<"M", "y", "t", "h">>), PyDict([term |-> PyInt(5)])>>)] }

\* classification x medium x (title, objectName), and a medium of the wrong type
VesselRecords ==
  { Record([classification |-> c, medium |-> md, title |-> tn[1], objectName |-> tn[2]]) :
      c \in {Absent, PyStr(<<"V", "a", "s", "e", "s">>), PyStr(<<"S", "t", "o", "r", "a", "g", "e", " ", "V", "e", "s", "s", "e", "l", "s">>), PyStr(<<" ", "T", "e", "r", "r", "a", "c", "o", "t", "t", "a", "s", " ">>)},
      md \in {Absent, PyStr(<<"M", "a", "r", "b", "l", "e">>), PyStr(<<"T", "e", "r", "r", "a", "c", "o", "t", "t", "a">>)},
      tn \in {<<Absent, Absent>>, <<PyStr(<<"H", "e", "r", "o">>), Absent>>, <<Absent, PyStr(<<"J", "a", "r">>)>>} }
  \cup { [classification |-> PyStr(<<"S", "c", "u", "l", "p", "t", "u", "r", "e">>), medium |-> PyStr(<<" ", "G", "l", "a", "z", "e", "d", " ", "E", "A", "R", "T", "H", "E", "N", "W", "A", "R", "E">>),
          title |-> PyStr(<<>>), objectName |-> PyStr(<<"J", "a", "r">>)],
         [classification |-> PyStr(<<"S", "c", "u", "l", "p", "t", "u", "r", "e">>), medium |-> PyStr(<<"M", "a", "r", "b", "l", "e">>)],
         [classification |-> PyStr(<<"V", "a", "s", "e", "s">>), medium |-> PyInt(5)] }

\* period x title, records titled by their objectName, and a period of the wrong type
CategoryRecords ==
  { Record([period |-> p, title |-> tt]) :
      p \in {Absent, PyStr(<<"R", "o", "m", "a", "n", " ", "I", "m", "p", "e", "r", "i", "a", "l">>), PyStr(<<"C", "l", "a", "s", "s", "i", "c", "a", "l">>),
             PyStr(<<"L", "a", "t", "e", " ", "H", "e", "l", "l", "e", "n", "i", "s", "t", "i", "c">>), PyStr(<<"A", "r", "c", "h", "a", "i", "c">>)},
      tt \in {Absent, PyStr(<<"R", "o", "m", "a", "n", " ", "c", "o", "p", "y", " ", "o", "f", " ", "a", " ", "G", "r", "e", "e", "k", " ", "o", "r", "i", "g", "i", "n", "a", "l">>), PyStr(<<"G", "r", "e", "e", "k", " ", "V", "a", "s", "e">>),
              PyStr(<<"C", "l", "a", "s", "s", "i", "c", "a", "l", " ", "h", "e", "a", "d">>), PyStr(<<"H", "e", "l", "l", "e", "n", "i", "s", "t", "i", "c", " ", "R", "u", "l", "e", "r">>)} }
  \cup { [objectName |-> PyStr(<<"R", "o", "m", "a", "n", " ", "l", "a", "m", "p">>)],
         [title |-> PyStr(<<>>), objectName |-> PyStr(<<"G", "r", "e", "e", "k", " ", "V", "a", "s", "e">>), period |-> PyStr(<<"A", "r", "c", "h", "a", "i", "c">>)],
         [period |-> PyStr(<<"G", "R", "E", "E", "K", ",", " ", "A", "t", "t", "i", "c">>), title |-> PyStr(<<"B", "o", "w", "l">>)],
         [period |-> PyInt(5), title |-> PyStr(<<"B", "o", "w", "l">>)] }

\* objectBeginDate x objectDate, with dates of the wrong type
YearRecords ==
  { Record([objectBeginDate |-> y, objectDate |-> od]) :
      y \in {Absent, PyInt(0 - 530), PyInt(0), PyFloat(35)},
      od \in {Absent, PyStr(<<"c", "a", ".", " ", "5", "3", "0", " ", "B", ".", "C", ".">>), PyStr(<<"1", "8", "t", "h", " ", "c", "e", "n", "t", "u", "r", "y">>), PyStr(<<"-", "5", "3", "0">>),
              PyStr(<<"1", "2", "3", "4", "5">>), PyStr(<<"n", ".", "d", ".">>), PyStr(<<"x", "-", "y", "-", "2", "0", " ", "t", "o", " ", "7">>), PyInt(530)} }

\* tags values: absent, null, not a list, plain strings, mappings, other objects
TagRecords ==
  { EmptyDict,
    [tags |-> PyNone],
    [tags |-> PyStr(<<"n", "o", "t", "-", "a", "-", "l", "i", "s", "t">>)],
    [tags |-> PyDict([term |-> PyStr(<<"H", "e", "r", "o">>)])],
    [tags |-> PyList(<< >>)],
    [tags |-> PyList(<<PyDict([term |-> PyStr(<<"H", "e", "r", "o">>)]), PyStr(<<"M", "y", "t", "h">>)>>)],
    [tags |-> PyList(<<PyStr(<<"M", "y", "t", "h">>), PyStr(<<"m", "y", "t", "h">>), PyStr(<<"H", "e", "r", "o">>)>>)],
    [tags |-> PyList(<<PyStr(<<" ", "H", "e", "r", "o", " ">>)>>)],
    [tags |-> PyList(<<PyStr(<<" ">>), PyStr(<<"M", "y", "t", "h">>)>>)],
    [tags |-> PyList(<<PyStr(<<>>), PyDict([term |-> PyStr(<<>>)]), PyStr(<<"H", "e", "r", "o">>)>>)],
    [tags |-> PyList(<<PyDict([term |-> PyNone]), PyDict(EmptyDict), PyStr(<<"M", "y", "t", "h">>)>>)],
    [tags |-> PyList(<<PyInt(7), PyNone, PyFloat(35), PyList(<< >>)>>)],
    [tags |-> PyList(<<PyDict([term |-> PyInt(0)]), PyDict([term |-> PyStr(<<"M", "Y", "T", "H">>)])>>)],
    [tags |-> PyList(<<PyDict([term |-> PyInt(5)])>>)],
    [tags |-> PyList(<<PyStr(<<"H", "e", "r", "o">>), PyDict([term |-> PyInt(5)]), PyStr(<<"M", "y", "t", "h">>)>>)] }

\* accessionYear values: absent, null, integers, floats, strings of digits
\* and other strings
AccRecords ==
  { EmptyDict,
    [accessionYear |-> PyNone],
    [accessionYear |-> PyInt(1975)],
    [accessionYear |-> PyInt(0)],
    [accessionYear |-> PyFloat(195)],
    [accessionYear |-> PyStr(<<"1", "9", "2", "3">>)],
    [accessionYear |-> PyStr(<<"0", "1", "2", "3">>)],
    [accessionYear |-> PyStr(<<"1", "9", "7", "5">>)],
    [accessionYear |-> PyStr(<<>>)],
    [accessionYear |-> PyStr(<<"n", ".", "d", ".">>)],
    [accessionYear |-> PyStr(<<"-", "5">>)],
    [accessionYear |-> PyStr(<<" ", "1", "2">>)],
    [accessionYear |-> PyStr(<<"1", "9", ".", "5">>)],
    [accessionYear |-> PyStr(<<"1", "9", "²">>)],
    [accessionYear |-> PyList(<<PyInt(1923)>>)] }

\* medium, culture and classification values that differ in case and in
\* surrounding whitespace, alone and together, and a culture of the wrong type
CountRecords ==
  { EmptyDict,
    [medium |-> PyNone, culture |-> PyNone, classification |-> PyNone],
    [medium |-> PyStr(<<"M", "a", "r", "b", "l", "e">>)],
    [medium |-> PyStr(<<" ", "M", "A", "R", "B", "L", "E", " ">>)],
    [medium |-> PyStr(<<" ", " ">>)],
    [medium |-> PyStr(<<>>), culture |-> PyStr(<<" ">>), classification |-> PyStr(<<"\t", " ">>)],
    [medium |-> PyStr(<<"B", "r", "o", "n", "z", "e">>), culture |-> PyStr(<<"R", "o", "m", "a", "n">>)],
    [culture |-> PyStr(<<"G", "r", "e", "e", "k">>)],
    [culture |-> PyStr(<<"g", "r", "e", "e", "k">>)],
    [culture |-> PyStr(<<" ", "G", "r", "e", "e", "k", " ">>)],
    [classification |-> PyStr(<<"V", "a", "s", "e", "s">>)],
    [classification |-> PyStr(<<"v", "a", "s", "e", "s", " ">>)],
    [classification |-> PyStr(<<"V", "a", "s", "e", "s">>), medium |-> PyStr(<<"m", "a", "r", "b", "l", "e">>), culture |-> PyStr(<<"G", "r", "e", "e", "k">>)],
    [medium |-> PyStr(<<"M", "a", "r", "b", "l", "e">>), culture |-> PyStr(<<"G", "R", "E", "E", "K">>), classification |-> PyStr(<<" ", "V", "a", "s", "e", "s">>)],
    [medium |-> PyStr(<<"M", "a", "r", "b", "l", "e">>), culture |-> PyFloat(15)] }

\* the datasets of a session that analyses several times: the empty one, one
\* and two records in both orders, and one that raises
RunDatasets ==
  LET vase == [title |-> PyStr(<<"G", "r", "e", "e", "k", " ", "v", "a", "s", "e">>), objectBeginDate |-> PyInt(-530),
               medium |-> PyStr(<<"T", "e", "r", "r", "a", "c", "o", "t", "t", "a">>), classification |-> PyStr(<<"V", "a", "s", "e", "s">>),
               tags |-> PyList(<<PyDict([term |-> PyStr(<<"H", "e", "r", "a", "k", "l", "e", "s">>)])>>)]
      coin == [title |-> PyStr(<<"C", "o", "i", "n">>), period |-> PyStr(<<"R", "o", "m", "a", "n">>),
               culture |-> PyStr(<<"R", "o", "m", "a", "n">>), accessionYear |-> PyStr(<<"1", "9", "2", "1">>),
               objectDate |-> PyStr(<<"c", "a", ".", " ", "1", "5", "0">>)]
      bad == [objectDate |-> PyInt(530)]
  IN {<< >>, <<vase>>, <<vase, coin>>, <<coin, vase>>, <<coin, bad>>}

\* a call that carried its accumulators over from the call before
CallKeepAccumulators ==
  /\ pc \in {"done", "raised"} /\ Len(runs) + 1 < MaxCalls
  /\ runs' = Append(runs, [ds |-> ds, pc |-> pc, result |-> result])
  /\ ds' \in RunDatasets
  /\ i' = 1 /\ pc' = "loop" /\ result' = << >>
  /\ UNCHANGED <<years, mediums, cultures, classes, tags, vases, acqs, gvr, galleryVars,
                 mergeVars>>

\* the next run of the page script calls extract_stats again (line 369), on
\* the dataset the session holds by then: the same one or a newly fetched
\* one; line 331 sets the locals
Call ==
  /\ pc \in {"done", "raised"} /\ Len(runs) + 1 < MaxCalls
  /\ runs' = Append(runs, [ds |-> ds, pc |-> pc, result |-> result])
  /\ ds' \in RunDatasets
  /\ i' = 1 /\ pc' = "loop" /\ result' = << >>
  /\ Assign(Locals331)
  /\ UNCHANGED <<galleryVars, mergeVars>>

NextRuns == FoldRecord \/ RaiseInRecord \/ Return \/ Call

(* ---------------------------- Gallery page ---------------------------- *)

Min(a, b) == IF a < b THEN a ELSE b
Max(a, b) == IF a > b THEN a ELSE b

\* st.session_state.get(key, default)
SessionGet(ss, key, default) == IF key \in DOMAIN ss THEN ss[key] ELSE default

\* st.session_state[key] = value
SessionSet(ss, key, value) ==
  [k \in DOMAIN ss \cup {key} |-> IF k = key THEN value ELSE ss[k]]

\* thumbs[start:start+per_page]
PageItems(thumbs, start, pp) == SubSeq(thumbs, start + 1, Min(start + pp, Len(thumbs)))

\* math.ceil(len(thumbs)/per_page)
Pages(thumbs, pp) == (Len(thumbs) + pp - 1) \div pp

\* "Previous" without max(0, .)
PrevIndexNoMax(idx) == idx - 1

\* line 279
PrevIndex(idx) == Max(0, idx - 1)

\* "Next" without min(len(modal_thumbs)-1, .)
NextIndexNoMin(idx, modal_thumbs) == idx + 1

\* line 286
NextIndex(idx, modal_thumbs) == Min(Len(modal_thumbs) - 1, idx + 1)

\* lines 231-287: the modal and its three buttons, of which click is the one
\* pressed, if any; record = modal_thumbs[idx] raises IndexError past the end
ModalBlock(ss, thumbs, click) ==
  IF ~SessionGet(ss, "modal_open", FALSE)
  THEN [ss |-> ss, rendered |-> "none", record |-> 0, rerun |-> FALSE]
  ELSE
    LET modal_thumbs == SessionGet(ss, "modal_thumbs", thumbs)
        idx == Max(0, Min(SessionGet(ss, "modal_index", 0), Len(modal_thumbs) - 1))
        ss1 == SessionSet(ss, "modal_index", idx)
    IN IF idx >= Len(modal_thumbs)
       THEN [ss |-> ss1, rendered |-> "IndexError", record |-> 0, rerun |-> FALSE]
       ELSE [ss |-> IF click = "prev" THEN SessionSet(ss1, "modal_index", PrevIndex(idx))
                    ELSE IF click = "close" THEN SessionSet(ss1, "modal_open", FALSE)
                    ELSE IF click = "next"
                         THEN SessionSet(ss1, "modal_index", NextIndex(idx, modal_thumbs))
                    ELSE ss1,
             rendered |-> "shown", record |-> modal_thumbs[idx + 1],
             rerun |-> click \in {"prev", "next"}]

\* lines 160-287: one run of the script on the Gallery page, started by the
\* click of a widget: "fetch" stores the loaded list, "view" is the View
\* Details button of item number item of the page shown
GalleryRun(ss, click, loaded, item, pp, pg) ==
  LET ss1 == IF click = "fetch" THEN SessionSet(ss, "gallery_thumbs", loaded) ELSE ss
      thumbs == SessionGet(ss1, "gallery_thumbs", << >>)
      start == (pg - 1) * pp
      ss2 == IF click = "view" /\ item < Len(PageItems(thumbs, start, pp))
             THEN SessionSet(SessionSet(SessionSet(ss1, "modal_thumbs", thumbs),
                                        "modal_index", start + item),
                             "modal_open", TRUE)
             ELSE ss1
  IN IF thumbs = << >>
     THEN [ss |-> ss1, rendered |-> "none", record |-> 0, rerun |-> FALSE]
     ELSE ModalBlock(ss2, thumbs, click)

\* the run leaves its session state, what it rendered and whether it asked
\* for another run
Ran(run, click) ==
  /\ session_state' = run.ss
  /\ rendered' = run.rendered /\ record' = run.record /\ rerun' = run.rerun
  /\ event' = click

\* the lists a fetch can load: artworks with an image, each objectID once
\* (all_ids holds no ID twice), from two searches with different results
ThumbLists ==
  {[k \in 1..n |-> k] : n \in 0..MaxThumbs} \cup {<<12, 11>>}

\* the values of "Thumbnails per page" the model enters: the least and the
\* default of the widget (line 194)
PerPages == {6, 12}

notGallery ==
  <<ds, i, pc, years, mediums, cultures, classes, tags, vases, acqs, gvr, result, runs,
    mergeVars>>

\* "Fetch artworks (images)" (lines 160-187)
Fetch ==
  /\ ~rerun
  /\ \E loaded \in ThumbLists :
       Ran(GalleryRun(session_state, "fetch", loaded, 0, per_page, page_idx), "fetch")
  /\ UNCHANGED <<per_page, page_idx, notGallery>>

\* a new value in one of the two number inputs (lines 189-193), shown only
\* when there are thumbs; the page is at most the number of pages shown
Paginate ==
  /\ ~rerun /\ SessionGet(session_state, "gallery_thumbs", << >>) # << >>
  /\ \/ per_page' \in PerPages \ {per_page} /\ page_idx' = page_idx
     \/ /\ page_idx' \in 1..Max(1, Pages(session_state.gallery_thumbs, per_page)) \ {page_idx}
        /\ per_page' = per_page
  /\ Ran(GalleryRun(session_state, "page", << >>, 0, per_page', page_idx'), "page")
  /\ UNCHANGED notGallery

\* "View Details" of an item of the page shown (lines 223-228)
ViewDetails ==
  /\ ~rerun
  /\ \E item \in 0..(per_page - 1) :
       /\ item < Len(PageItems(SessionGet(session_state, "gallery_thumbs", << >>),
                                (page_idx - 1) * per_page, per_page))
       /\ Ran(GalleryRun(session_state, "view", << >>, item, per_page, page_idx), "view")
  /\ UNCHANGED <<per_page, page_idx, notGallery>>

\* a button of the modal the last run rendered (lines 276-287)
Navigate(click) ==
  /\ ~rerun /\ rendered = "shown"
  /\ Ran(GalleryRun(session_state, click, << >>, 0, per_page, page_idx), click)
  /\ UNCHANGED <<per_page, page_idx, notGallery>>

Previous == Navigate("prev")
Close == Navigate("close")
NextItem == Navigate("next")

\* st.experimental_rerun(): the script runs again at once, no widget clicked
Rerun ==
  /\ rerun
  /\ Ran(GalleryRun(session_state, "none", << >>, 0, per_page, page_idx), "rerun")
  /\ UNCHANGED <<per_page, page_idx, notGallery>>

NextGallery ==
  Fetch \/ Paginate \/ ViewDetails \/ Previous \/ Close \/ NextItem \/ Rerun

(* ------------------------- merge of the searches ---------------------- *)

\* the figures of MYTH_LIST the model selects: one with an alias in the
\* mapping of generate_aliases, one without
Figures == {<<"Z", "e", "u", "s">>, <<"N", "i", "k", "e">>}

\* mapping.get(name, []) (lines 82-91)
Mapping(name) ==
  CASE name = <<"A", "t", "h", "e", "n", "a">> -> <<<<"P", "a", "l", "l", "a", "s", " ", "A", "t", "h", "e", "n", "a">>, <<"M", "i", "n", "e", "r", "v", "a">>>>
    [] name = <<"Z", "e", "u", "s">> -> <<<<"J", "u", "p", "i", "t", "e", "r">>>>
    [] name = <<"A", "p", "h", "r", "o", "d", "i", "t", "e">> -> <<<<"V", "e", "n", "u", "s">>>>
    [] name = <<"H", "e", "r", "m", "e", "s">> -> <<<<"M", "e", "r", "c", "u", "r", "y">>>>
    [] name = <<"H", "e", "r", "a", "c", "l", "e", "s">> -> <<<<"H", "e", "r", "c", "u", "l", "e", "s">>>>
    [] name = <<"P", "e", "r", "s", "e", "p", "h", "o", "n", "e">> -> <<<<"P", "r", "o", "s", "e", "r", "p", "i", "n", "a">>>>
    [] name = <<"M", "e", "d", "u", "s", "a">> -> <<<<"G", "o", "r", "g", "o", "n">>>>
    [] OTHER -> << >>

\* list(dict.fromkeys(xs)): the first occurrence of each element, in order
RECURSIVE DictFromKeys(_)
DictFromKeys(xs) ==
  IF xs = << >> THEN << >>
  ELSE LET front == DictFromKeys(SubSeq(xs, 1, Len(xs) - 1))
           last == xs[Len(xs)]
       IN IF \E k \in 1..Len(front) : front[k] = last THEN front ELSE Append(front, last)

\* lines 81-93
generate_aliases(name) ==
  DictFromKeys(<<name>> \o Mapping(name) \o <<name \o <<" ", "m", "y", "t", "h">>, name \o <<" ", "g", "r", "e", "e", "k">>>>)

\* what the request of lines 48-50 meets: an exception (network, HTTP status,
\* body that is no JSON), or a JSON body whose objectIDs is null or a list
ApiResponses ==
  {[status |-> "error", objectIDs |-> PyNone], [status |-> "ok", objectIDs |-> PyNone]}
  \cup {[status |-> "ok", objectIDs |-> PyList(ids)] :
          ids \in UNION {[1..n -> {101, 102}] : n \in 0..MaxIds}}

\* met_search_ids without the slice of line 51
met_search_idsUncut(resp, max) ==
  IF resp.status = "error" THEN << >>
  ELSE Or(resp.objectIDs, PyList(<< >>)).v

\* lines 45-53: ids[:max_results] of objectIDs or [], and [] on any exception
met_search_ids(resp, max) ==
  IF resp.status = "error" THEN << >>
  ELSE LET ids == Or(resp.objectIDs, PyList(<< >>)).v
       IN SubSeq(ids, 1, Min(max, Len(ids)))

\* the inner loop without the test of line 303: every ID is appended
MergeIdsNoTest(all, ids) == all \o ids

\* lines 302-304: for oid in ids: if oid not in all_ids: all_ids.append(oid)
RECURSIVE MergeIds(_, _)
MergeIds(all, ids) ==
  IF ids = << >> THEN all
  ELSE MergeIds(IF \E k \in 1..Len(all) : all[k] = Head(ids) THEN all
                ELSE Append(all, Head(ids)),
                Tail(ids))

notMerge ==
  <<ds, i, pc, years, mediums, cultures, classes, tags, vases, acqs, gvr, result, runs,
    galleryVars>>

\* "Fetch dataset & analyze" with a figure and a max_results chosen in the
\* widgets (lines 293-299; lines 160-163 on the Gallery page)
FetchClick ==
  /\ mpc \in {"idle", "done"}
  /\ figure' \in Figures /\ max_results' \in 1..MaxResults
  /\ alias_i' = 0 /\ all_ids' = << >> /\ returned' = << >> /\ mpc' = "loop"
  /\ UNCHANGED notMerge

\* one round of the loop over the aliases (lines 300-305; 164-169 on the
\* Gallery page): the search of the alias and the merge of its IDs
SearchAlias ==
  /\ mpc = "loop" /\ alias_i < Len(generate_aliases(figure))
  /\ \E resp \in ApiResponses :
       LET ids == met_search_ids(resp, max_results)
       IN /\ all_ids' = MergeIds(all_ids, ids)
          /\ returned' = Append(returned, [query |-> generate_aliases(figure)[alias_i + 1],
                                           failed |-> resp.status = "error",
                                           ids |-> ids])
  /\ alias_i' = alias_i + 1
  /\ UNCHANGED <<figure, max_results, mpc, notMerge>>

\* the loop is over (lines 306-307)
MergeDone ==
  /\ mpc = "loop" /\ alias_i = Len(generate_aliases(figure))
  /\ mpc' = "done"
  /\ UNCHANGED <<figure, max_results, alias_i, all_ids, returned, notMerge>>

NextMerge == FetchClick \/ SearchAlias \/ MergeDone

(* --------------------------- specifications --------------------------- *)

Init == ds \in Datasets(MixedRecords) /\ InitAcc
Spec == Init /\ [][Next]_vars

InitVessel == ds \in Datasets(VesselRecords) /\ InitAcc
SpecVessel == InitVessel /\ [][Next]_vars

InitCategory == ds \in Datasets(CategoryRecords) /\ InitAcc
SpecCategory == InitCategory /\ [][Next]_vars

InitYear == ds \in Datasets(YearRecords) /\ InitAcc
SpecYear == InitYear /\ [][Next]_vars

InitTags == ds \in Datasets(TagRecords) /\ InitAcc
SpecTags == InitTags /\ [][Next]_vars

InitCounts == ds \in Datasets(CountRecords) /\ InitAcc
SpecCounts == InitCounts /\ [][Next]_vars

InitAcq == ds \in Datasets(AccRecords) /\ InitAcc
SpecAcq == InitAcq /\ [][Next]_vars

InitRuns == ds \in RunDatasets /\ InitAcc
SpecRuns == InitRuns /\ [][NextRuns]_vars

\* the Gallery page of a new session; extract_stats is not called there
InitGallery == ds = << >> /\ InitAcc
SpecGallery == InitGallery /\ [][NextGallery]_vars

\* the page before a fetch is asked for
InitMerge == ds = << >> /\ InitAcc
SpecMerge == InitMerge /\ [][NextMerge]_vars

(* ---------------------- what the claims refer to ---------------------- *)

\* a text field as the claims read it: its string, the empty string when the
\* field is missing, null or no string
FieldText(m, key) ==
  IF key \in DOMAIN m /\ m[key].t = "str" THEN m[key].v ELSE << >>

\* the records folded so far (all of them once extract_stats has returned)
NumFolded == i - 1

Running == pc \in {"loop", "done"}

\* the first record, and only it, has been folded without a raise
FirstFolded == Running /\ i = 2

RECURSIVE Flatten(_)
Flatten(ss) == IF ss = << >> THEN << >> ELSE Head(ss) \o Flatten(Tail(ss))

GvrSum(g) == g.greek + g.roman + g.other

(* -------------------------------- C1 ---------------------------------- *)

\* C1: the category counts have exactly the keys greek, roman and other, each
\* count is a natural number, and the counts add up to the number of records
\* folded: while the loop runs, to the records folded so far; in the returned
\* statistics, to the length of the dataset.
C1_CategoryCoverage ==
  /\ Running =>
       /\ DOMAIN gvr = {"greek", "roman", "other"}
       /\ \A c \in DOMAIN gvr : gvr[c] \in Nat
       /\ GvrSum(gvr) = NumFolded
  /\ pc = "done" =>
       /\ DOMAIN result.gvr = {"greek", "roman", "other"}
       /\ \A c \in DOMAIN result.gvr : result.gvr[c] \in Nat
       /\ GvrSum(result.gvr) = Len(ds)

\* a dataset of two records was returned with one Greek, one Roman record
C1_Witness ==
  /\ pc = "done" /\ Len(ds) = 2
  /\ result.gvr = [greek |-> 1, roman |-> 1, other |-> 0]

(* -------------------------------- C2 ---------------------------------- *)

\* C2: the aggregation never raises, whatever the types of a record's fields:
\* extract_stats is never left by an exception.
C2_NeverRaises == pc # "raised"

(* -------------------------------- C3 ---------------------------------- *)

\* the vessel test as the claim states it, "vessel" among the classification keys
ClaimedVessel(m) ==
  \/ ContainsAny(Lower(FieldText(m, "classification")),
                 {<<"v", "a", "s", "e">>, <<"v", "e", "s", "s", "e", "l">>, <<"a", "m", "p", "h", "o", "r", "a">>, <<"p", "o", "t", "t", "e", "r", "y">>, <<"c", "e", "r", "a", "m", "i", "c">>, <<"t", "e", "r", "r", "a", "c", "o", "t", "t">>})
  \/ ContainsAny(Lower(FieldText(m, "medium")),
                 {<<"v", "a", "s", "e">>, <<"c", "e", "r", "a", "m", "i", "c">>, <<"t", "e", "r", "r", "a", "c", "o", "t", "t", "a">>, <<"e", "a", "r", "t", "h", "e", "n", "w", "a", "r", "e">>})

\* the vessel test without "vessel" among the classification keys
AmendedVessel(m) ==
  \/ ContainsAny(Lower(FieldText(m, "classification")),
                 {<<"v", "a", "s", "e">>, <<"a", "m", "p", "h", "o", "r", "a">>, <<"p", "o", "t", "t", "e", "r", "y">>, <<"c", "e", "r", "a", "m", "i", "c">>, <<"t", "e", "r", "r", "a", "c", "o", "t", "t">>})
  \/ ContainsAny(Lower(FieldText(m, "medium")),
                 {<<"v", "a", "s", "e">>, <<"c", "e", "r", "a", "m", "i", "c">>, <<"t", "e", "r", "r", "a", "c", "o", "t", "t", "a">>, <<"e", "a", "r", "t", "h", "e", "n", "w", "a", "r", "e">>})

HasRoman(s) == Contains(Lower(s), <<"r", "o", "m", "a", "n">>)
HasGreekWord(s) == ContainsAny(Lower(s), {<<"g", "r", "e", "e", "k">>, <<"c", "l", "a", "s", "s", "i", "c", "a", "l">>, <<"h", "e", "l", "l", "e", "n", "i", "s", "t", "i", "c">>})

\* the title the classification reads: the record's title or, when that is
\* missing or empty, its objectName
TitleOrName(m) ==
  IF FieldText(m, "title") # << >> THEN FieldText(m, "title")
  ELSE FieldText(m, "objectName")

\* C4 (as stated): a record whose period and title do not contain "roman" is
\* GREEK exactly when its period or its title contains greek, classical or
\* hellenistic, and OTHER otherwise.
C4_GreekAsClaimed ==
  (FirstFolded /\ ~HasRoman(FieldText(ds[1], "period"))
               /\ ~HasRoman(FieldText(ds[1], "title")))
  => IF HasGreekWord(FieldText(ds[1], "period")) \/ HasGreekWord(FieldText(ds[1], "title"))
     THEN gvr = [greek |-> 1, roman |-> 0, other |-> 0]
     ELSE gvr = [greek |-> 0, roman |-> 0, other |-> 1]

\* C4 (amended): with the title read as the record's title or, when that is
\* missing or empty, its objectName: a record whose period and title do not
\* contain "roman" is GREEK exactly when its period contains greek, classical
\* or hellenistic or its title contains greek, and OTHER otherwise.
C4_GreekTest ==
  (FirstFolded /\ ~HasRoman(FieldText(ds[1], "period"))
               /\ ~HasRoman(TitleOrName(ds[1])))
  => IF \/ HasGreekWord(FieldText(ds[1], "period"))
        \/ Contains(Lower(TitleOrName(ds[1])), <<"g", "r", "e", "e", "k">>)
     THEN gvr = [greek |-> 1, roman |-> 0, other |-> 0]
     ELSE gvr = [greek |-> 0, roman |-> 0, other |-> 1]

\* a record titled "Classical head", with no period, was returned as OTHER
C4_Witness ==
  /\ FirstFolded /\ pc = "done"
  /\ FieldText(ds[1], "title") = <<"C", "l", "a", "s", "s", "i", "c", "a", "l", " ", "h", "e", "a", "d">>
  /\ FieldText(ds[1], "period") = << >>
  /\ result.gvr = [greek |-> 0, roman |-> 0, other |-> 1]

(* -------------------------------- C5 ---------------------------------- *)

\* C5: a record whose lower-cased period or lower-cased title contains "roman"
\* is counted as ROMAN and not as GREEK, whatever Greek keywords the period
\* or the title contain as well.
C5_RomanPrecedence ==
  (FirstFolded /\ (HasRoman(FieldText(ds[1], "period")) \/ HasRoman(FieldText(ds[1], "title"))))
  => gvr = [greek |-> 0, roman |-> 1, other |-> 0]

\* "Roman copy of a Greek original", period Classical, was returned as ROMAN
C5_Witness ==
  /\ FirstFolded /\ pc = "done"
  /\ FieldText(ds[1], "title") = <<"R", "o", "m", "a", "n", " ", "c", "o", "p", "y", " ", "o", "f", " ", "a", " ", "G", "r", "e", "e", "k", " ", "o", "r", "i", "g", "i", "n", "a", "l">>
  /\ FieldText(ds[1], "period") = <<"C", "l", "a", "s", "s", "i", "c", "a", "l">>
  /\ result.gvr = [greek |-> 0, roman |-> 1, other |-> 0]

(* -------------------------------- C6 ---------------------------------- *)

\* C6: a record whose objectBeginDate is an integer contributes exactly that
\* integer, sign included, as its year, and its objectDate is not read: the
\* fold never stops on the objectDate of such a record, whatever that holds
\* (the records of SpecYear have no other field that could stop it).
C6_BeginDateFirst ==
  /\ pc = "raised" => Get(ds[i], "objectBeginDate").t # "int"
  /\ (i >= 2 /\ Get(ds[1], "objectBeginDate").t = "int")
       => (Len(years) >= 1 /\ years[1] = ds[1].objectBeginDate.v)
  /\ (pc = "done" /\ Len(ds) >= 1 /\ Get(ds[1], "objectBeginDate").t = "int")
       => result.years[1] = ds[1].objectBeginDate.v

\* objectBeginDate -530 beside an objectDate that is no string: -530 returned
C6_Witness ==
  /\ FirstFolded /\ pc = "done"
  /\ Get(ds[1], "objectBeginDate") = PyInt(0 - 530)
  /\ Get(ds[1], "objectDate") = PyInt(530)
  /\ result.years = <<0 - 530>>

(* -------------------------------- C7 ---------------------------------- *)

\* w is an optional minus sign followed by one to four decimal digits
IsYearText(w) ==
  LET d == IF Len(w) > 0 /\ w[1] = "-" THEN Tail(w) ELSE w
  IN Len(d) \in 1..4 /\ \A k \in 1..Len(d) : IsDigit(d[k])

\* the places <<p, q>> of s that hold such a text
YearTexts(s) ==
  {pq \in (1..Len(s)) \X (1..Len(s)) : pq[1] <= pq[2] /\ IsYearText(SubSeq(s, pq[1], pq[2]))}

\* the first match from the left, taken as long as it can be; << >> if none
FirstYearText(s) ==
  IF YearTexts(s) = {} THEN << >>
  ELSE LET p == CHOOSE p \in {pq[1] : pq \in YearTexts(s)} :
                  \A pq \in YearTexts(s) : p <= pq[1]
           q == CHOOSE q \in {pq[2] : pq \in {x \in YearTexts(s) : x[1] = p}} :
                  \A pq \in {x \in YearTexts(s) : x[1] = p} : q >= pq[2]
       IN SubSeq(s, p, q)

\* the integer a year text denotes
YearTextValue(w) == IF w[1] = "-" THEN 0 - DecVal(Tail(w)) ELSE DecVal(w)

\* the years one record contributes: none or one
YearsOf(m) ==
  IF Get(m, "objectBeginDate").t = "int" THEN <<m.objectBeginDate.v>>
  ELSE IF FirstYearText(FieldText(m, "objectDate")) = << >> THEN << >>
  ELSE <<YearTextValue(FirstYearText(FieldText(m, "objectDate")))>>

\* C7: a record whose objectBeginDate is no integer contributes the integer
\* value of the first match, from the left, of "optional minus sign, one to
\* four digits" in its objectDate, and nothing when objectDate is missing or
\* has no match; so years holds, in input order and with duplicates, at most
\* one year per record folded.
C7_YearsInOrder ==
  /\ Running =>
       /\ years = Flatten([k \in 1..NumFolded |-> YearsOf(ds[k])])
       /\ Len(years) <= NumFolded
  /\ pc = "done" =>
       /\ result.years = Flatten([k \in 1..Len(ds) |-> YearsOf(ds[k])])
       /\ Len(result.years) <= Len(ds)

\* "18th century" then "ca. 530 B.C.", neither with an integer objectBeginDate,
\* returned the years 18, 530
C7_Witness ==
  /\ pc = "done" /\ Len(ds) = 2
  /\ Get(ds[1], "objectBeginDate").t # "int" /\ Get(ds[2], "objectBeginDate").t # "int"
  /\ FieldText(ds[1], "objectDate") = <<"1", "8", "t", "h", " ", "c", "e", "n", "t", "u", "r", "y">>
  /\ FieldText(ds[2], "objectDate") = <<"c", "a", ".", " ", "5", "3", "0", " ", "B", ".", "C", ".">>
  /\ result.years = <<18, 530>>

(* -------------------------------- C8 ---------------------------------- *)

\* C8: the number of vessel examples equals the number of records folded for
\* which the vessel test is true: a vessel record appends exactly one
\* example, any other record none.
C8_VesselExampleCount ==
  /\ Running =>
       Len(vases) = Cardinality({k \in 1..NumFolded : AmendedVessel(ds[k])})
  /\ pc = "done" =>
       Len(result.vases) = Cardinality({k \in 1..Len(ds) : AmendedVessel(ds[k])})

\* two vessel records with the same label gave two examples, the duplicate kept
C8_Witness ==
  /\ pc = "done" /\ Len(ds) = 2
  /\ AmendedVessel(ds[1]) /\ AmendedVessel(ds[2])
  /\ Len(result.vases) = 2 /\ result.vases[1] = result.vases[2]

(* -------------------------------- C9 ---------------------------------- *)

\* the first text of texts that is not empty, the empty string if none is
FirstPresent(texts) ==
  IF \A k \in 1..Len(texts) : texts[k] = << >> THEN << >>
  ELSE texts[CHOOSE k \in 1..Len(texts) :
               texts[k] # << >> /\ \A j \in 1..(k - 1) : texts[j] = << >>]

\* the label as the claim orders it: title, classification, medium, objectName
ClaimedLabel(m) ==
  PyStr(FirstPresent(<<FieldText(m, "title"), FieldText(m, "classification"),
                       FieldText(m, "medium"), FieldText(m, "objectName")>>))

\* the label with objectName second, classification and medium trimmed
AmendedLabel(m) ==
  PyStr(FirstPresent(<<FieldText(m, "title"), FieldText(m, "objectName"),
                       Strip(FieldText(m, "classification")),
                       Strip(FieldText(m, "medium"))>>))

\* C9 (as stated): the label of a vessel record is its first present value in
\* the order title, classification, medium, objectName, and is a string.
C9_LabelAsClaimed ==
  (FirstFolded /\ vases # << >>) => vases[1] = ClaimedLabel(ds[1])

\* C9 (amended): the label of a vessel record is its first present (non-empty)
\* value in the order title, objectName, classification, medium, the last
\* two with surrounding whitespace removed; every label of the returned
\* vessel examples is a string, never None.
C9_LabelOrder ==
  /\ (FirstFolded /\ vases # << >>) => vases[1] = AmendedLabel(ds[1])
  /\ pc = "done" => \A k \in 1..Len(result.vases) : result.vases[k].t = "str"

\* no title, classification "Vases", objectName "Jar": labelled "Jar"
C9_Witness ==
  /\ FirstFolded /\ pc = "done"
  /\ FieldText(ds[1], "title") = << >>
  /\ FieldText(ds[1], "classification") = <<"V", "a", "s", "e", "s">>
  /\ FieldText(ds[1], "objectName") = <<"J", "a", "r">>
  /\ result.vases = <<PyStr(<<"J", "a", "r">>)>>

(* -------------------------------- C10 --------------------------------- *)

\* what one element of a tags list contributes before it is normalised
TagValue(it) ==
  IF it.t = "dict" THEN (IF "term" \in DOMAIN it.v THEN it.v.term ELSE PyNone)
  ELSE PyStr(StrOf(it))

\* a sequence of strings without its empty strings
RECURSIVE NonEmpty(_)
NonEmpty(ss) ==
  IF ss = << >> THEN << >>
  ELSE (IF Head(ss) = << >> THEN << >> ELSE <<Head(ss)>>) \o NonEmpty(Tail(ss))

\* the kept tags of a list: each value that is not None or empty passed
\* through norm, and dropped if norm leaves nothing
KeptTags(xs, norm(_)) ==
  NonEmpty([k \in 1..Len(xs) |->
              IF Truthy(TagValue(xs[k])) THEN norm(TagValue(xs[k]).v) ELSE << >>])

\* the tags of a record: nothing unless the tags field is a list
TagsOf(m, norm(_)) ==
  IF Get(m, "tags").t = "list" THEN KeptTags(m.tags.v, norm) ELSE << >>

LowerTrimmed(s) == Lower(Strip(s))

\* C10 (as stated): the tags kept are the elements' terms or string forms,
\* None and values empty after trimming skipped, each lower-cased and
\* trimmed, in order and with duplicates; tagCounts counts them.
C10_TagsAsClaimed ==
  /\ Running => tags = Flatten([k \in 1..NumFolded |-> TagsOf(ds[k], LowerTrimmed)])
  /\ pc = "done" =>
       result.tags = Counter(Flatten([k \in 1..Len(ds) |-> TagsOf(ds[k], LowerTrimmed)]))

\* C10 (amended): the tags kept are the elements' terms or string forms, None
\* and empty (falsy) values skipped, each lower-cased but not trimmed, in
\* order and with duplicates; tagCounts[t] is the number of kept occurrences
\* of t over all records, so a tag with surrounding whitespace counts under
\* its untrimmed key and a whitespace-only tag under a whitespace key. A
\* tags field that is absent, null or no list contributes nothing.
C10_TagNormalization ==
  /\ Running => tags = Flatten([k \in 1..NumFolded |-> TagsOf(ds[k], Lower)])
  /\ pc = "done" =>
       /\ result.tags = Counter(Flatten([k \in 1..Len(ds) |-> TagsOf(ds[k], Lower)]))
       /\ \A m \in {ds[k] : k \in 1..Len(ds)} :
            \A it \in (IF Get(m, "tags").t = "list"
                       THEN {m.tags.v[j] : j \in 1..Len(m.tags.v)} ELSE {}) :
              (it.t = "str" /\ it.v # << >>) => Lower(it.v) \in DOMAIN result.tags

\* " Hero " and "Hero" in one dataset: counted under " hero " and "hero"
C10_Witness ==
  /\ pc = "done" /\ Len(ds) = 2
  /\ <<" ", "h", "e", "r", "o", " ">> \in DOMAIN result.tags
  /\ <<"h", "e", "r", "o">> \in DOMAIN result.tags
  /\ <<"m", "y", "t", "h">> \in DOMAIN result.tags /\ result.tags[<<"m", "y", "t", "h">>] = 2

(* -------------------------------- C11 --------------------------------- *)

\* s consists only of decimal digits
OnlyDecimalDigits(s) == Len(s) > 0 /\ \A k \in 1..Len(s) : IsDigit(s[k])

\* the accession years one record contributes: none or one
AcqsOf(m) ==
  IF Get(m, "accessionYear").t = "int" THEN <<m.accessionYear.v>>
  ELSE IF Get(m, "accessionYear").t = "str" /\ OnlyDecimalDigits(m.accessionYear.v)
       THEN <<DecVal(m.accessionYear.v)>>
  ELSE << >>

\* C11: accessionYears holds, in input order, one entry for each record whose
\* accessionYear is an integer (unchanged) or a string of decimal digits only
\* (parsed), and no entry for any other record; no parse failure propagates:
\* the fold of an accessionYear never raises.
C11_AccessionYears ==
  /\ pc # "raised"
  /\ Running => acqs = Flatten([k \in 1..NumFolded |-> AcqsOf(ds[k])])
  /\ pc = "done" => result.acqs = Flatten([k \in 1..Len(ds) |-> AcqsOf(ds[k])])

\* C11 without its last part: what accessionYears holds whenever the
\* aggregation returns
C11_AccessionYearsReturned ==
  /\ Running => acqs = Flatten([k \in 1..NumFolded |-> AcqsOf(ds[k])])
  /\ pc = "done" => result.acqs = Flatten([k \in 1..Len(ds) |-> AcqsOf(ds[k])])

(* -------------------------------- C12 --------------------------------- *)

\* the key a record has in each table; the empty string when it has none
MediumKey(m) == Lower(Strip(FieldText(m, "medium")))
CultureKey(m) == Strip(FieldText(m, "culture"))
ClassificationKey(m) == Strip(FieldText(m, "classification"))

\* the table of the non-empty keys of the first n records, each with the
\* number of records that have it
KeyTable(keys, n) ==
  [key \in {keys[k] : k \in 1..n} \ {<< >>} |-> Cardinality({k \in 1..n : keys[k] = key})]

\* C12: mediumCounts is keyed by the trimmed, lower-cased medium,
\* cultureCounts and classificationCounts by the trimmed value with its case
\* kept; a record whose field is missing, null or trims to the empty string
\* is in no key of that table; every count is the number of input records
\* whose normalized field is that key.
C12_CountTables ==
  pc = "done" =>
    /\ result.mediums = KeyTable([k \in 1..Len(ds) |-> MediumKey(ds[k])], Len(ds))
    /\ result.cultures = KeyTable([k \in 1..Len(ds) |-> CultureKey(ds[k])], Len(ds))
    /\ result.classes = KeyTable([k \in 1..Len(ds) |-> ClassificationKey(ds[k])], Len(ds))

\* two records whose mediums differ in case and whitespace only, and whose
\* cultures differ in case only: one medium key counted twice, two culture keys
C12_Witness ==
  /\ pc = "done" /\ Len(ds) = 2
  /\ FieldText(ds[1], "medium") # FieldText(ds[2], "medium")
  /\ DOMAIN result.mediums = {<<"m", "a", "r", "b", "l", "e">>} /\ result.mediums[<<"m", "a", "r", "b", "l", "e">>] = 2
  /\ DOMAIN result.cultures = {<<"G", "r", "e", "e", "k">>, <<"G", "R", "E", "E", "K">>}
  /\ DOMAIN result.classes = {<<"V", "a", "s", "e", "s">>} /\ result.classes[<<"V", "a", "s", "e", "s">>] = 2

(* -------------------------------- C13 --------------------------------- *)

\* the field holds no text: it is missing, null, empty or of no content, or a
\* string of whitespace only
NoText(m, key) ==
  /\ Get(m, key).t = "str" \/ ~Truthy(Get(m, key))
  /\ Strip(FieldText(m, key)) = << >>

\* the record yields no usable field: no text in any text field, no year, no
\* tag, no accession year
NoUsableFields(m) ==
  /\ \A key \in {"title", "objectName", "medium", "culture", "classification", "period"} :
       NoText(m, key)
  /\ Get(m, "objectBeginDate").t \notin {"int", "bool"}
  /\ Get(m, "objectDate").t = "str" \/ ~Truthy(Get(m, "objectDate"))
  /\ FirstYearText(FieldText(m, "objectDate")) = << >>
  /\ Get(m, "tags").t = "list" =>
       \A k \in 1..Len(m.tags.v) : ~Truthy(TagValue(m.tags.v[k]))
  /\ Get(m, "accessionYear").t \notin {"int", "bool"}
  /\ Get(m, "accessionYear").t = "str" => ~IsDigitStr(m.accessionYear.v)

\* C13: folding a record that yields no usable fields, the empty mapping
\* among them, adds exactly one to the OTHER count and leaves years, the
\* medium, culture, classification and tag lists, the vessel examples, the
\* accession years and the GREEK and ROMAN counts as they are; the loop goes
\* on to the next record.
C13_EmptyRecordFrame ==
  [][(pc = "loop" /\ i <= Len(ds) /\ NoUsableFields(ds[i]))
       => /\ pc' = "loop" /\ i' = i + 1
          /\ gvr' = [gvr EXCEPT !.other = @ + 1]
          /\ UNCHANGED <<years, mediums, cultures, classes, tags, vases, acqs>>]_vars

\* a record with a year, a medium and a tag, then the empty mapping: both
\* counted as OTHER, the one year, medium and tag those of the first record
C13_Witness ==
  /\ pc = "done" /\ Len(ds) = 2 /\ ds[2] = EmptyDict
  /\ result.gvr = [greek |-> 0, roman |-> 0, other |-> 2]
  /\ result.years = <<530>> /\ Len(result.vases) = 1
  /\ DOMAIN result.tags = {<<"h", "e", "r", "a", "k", "l", "e", "s">>}

(* -------------------------------- C14 --------------------------------- *)

\* a call on a dataset an earlier call was given ends as that one did, and
\* every call starts from empty lists and zero counts
SameAsEarlierRuns ==
  /\ \A k \in 1..Len(runs) :
       (runs[k].ds = ds /\ pc \in {"done", "raised"})
         => /\ runs[k].pc = pc
            /\ (pc = "done" => runs[k].result = result)
  /\ (pc = "loop" /\ i = 1) => Acc = Locals331

\* C14: a call of extract_stats on a dataset an earlier call of the session
\* was given ends as that call ended and returns the same statistics,
\* whatever was analysed in between; every call starts from empty lists and
\* zero counts; and no step of a call changes the dataset it was given.
C14_NoStateBetweenRuns ==
  []SameAsEarlierRuns /\ [][pc = "loop" => ds' = ds]_vars

\* the third call of a session repeats the dataset of the first, two records
\* with a year, a tag and an accession year, after a call on another dataset
C14_Witness ==
  /\ pc = "done" /\ Len(runs) = 2 /\ Len(ds) = 2
  /\ runs[1].ds = ds /\ runs[2].ds # ds /\ runs[2].pc = "done"
  /\ runs[1].result = result
  /\ Len(result.years) = 2 /\ result.acqs = <<1921>>

(* -------------------------------- C15 --------------------------------- *)

ModalThumbs == session_state.modal_thumbs
ModalIndex == session_state.modal_index

\* the session holds a modal list with at least one item and an index into it
IndexInRange ==
  /\ {"modal_thumbs", "modal_index"} \subseteq DOMAIN session_state
  /\ Len(ModalThumbs) >= 1
  /\ 0 <= ModalIndex /\ ModalIndex <= Len(ModalThumbs) - 1

\* no run reads past the list; an open modal and a rendered one have an index
\* in range, and the record read is the one at the index the run began with
ModalReadsInRange ==
  /\ rendered # "IndexError"
  /\ SessionGet(session_state, "modal_open", FALSE) => IndexInRange
  /\ rendered = "shown" =>
       /\ IndexInRange
       /\ \E k \in 1..Len(ModalThumbs) : ModalThumbs[k] = record
       /\ event \notin {"prev", "next"} => record = ModalThumbs[ModalIndex + 1]

\* Previous on the first item and Next on the last leave the index as it is;
\* in an open modal Previous otherwise steps one item back and Next one on
NavigationStep ==
  /\ event' = "prev" =>
       /\ ModalIndex = 0 => ModalIndex' = 0
       /\ (session_state.modal_open /\ ModalIndex > 0) => ModalIndex' = ModalIndex - 1
  /\ event' = "next" =>
       /\ ModalIndex = Len(ModalThumbs) - 1 => ModalIndex' = ModalIndex
       /\ (session_state.modal_open /\ ModalIndex < Len(ModalThumbs) - 1)
            => ModalIndex' = ModalIndex + 1

\* C15: after any clicks of View Details, Previous, Next and Close and any
\* re-fetches of the gallery, a rendered modal reads modal_thumbs at an index
\* from 0 to len(modal_thumbs)-1 of a non-empty list; Previous steps one item
\* back and stays on the first item, Next steps one item on and stays on the
\* last, neither wraps around.
C15_ModalIndexSafe == []ModalReadsInRange /\ [][NavigationStep]_vars

\* Next pressed on the last of eight items, on the second page, after the
\* gallery was fetched again with other artworks: the index stays at 7
C15_Witness ==
  /\ event = "next" /\ rendered = "shown" /\ rerun
  /\ Len(ModalThumbs) = 8 /\ ModalIndex = 7 /\ record = ModalThumbs[8]
  /\ session_state.gallery_thumbs = <<12, 11>>
  /\ session_state.modal_open

(* -------------------------------- C16 --------------------------------- *)

\* the IDs the searches returned so far, alias after alias
ReturnedIds == Flatten([k \in 1..Len(returned) |-> returned[k].ids])

\* the positions of xs that hold an element for the first time
FirstPositions(xs) == {k \in 1..Len(xs) : \A j \in 1..(k - 1) : xs[j] # xs[k]}

\* ys is xs with every element kept at its first occurrence only
IsFirstOccurrences(ys, xs) ==
  /\ Len(ys) = Cardinality(FirstPositions(xs))
  /\ \A k \in 1..Len(ys) :
       \E p \in FirstPositions(xs) :
         /\ ys[k] = xs[p]
         /\ Cardinality({q \in FirstPositions(xs) : q < p}) = k - 1

\* C16: all_ids holds every object ID an alias search returned, each once, in
\* the order of first occurrence over the aliases of generate_aliases and the
\* IDs of each answer; an alias contributes at most max_results IDs; a
\* search that fails contributes none and the merge goes on, so that a
\* finished merge has searched every alias in order.
C16_AliasMerge ==
  /\ IsFirstOccurrences(all_ids, ReturnedIds)
  /\ Len(returned) = alias_i
  /\ \A k \in 1..Len(returned) :
       /\ returned[k].query = generate_aliases(figure)[k]
       /\ Len(returned[k].ids) <= max_results
       /\ returned[k].failed => returned[k].ids = << >>
  /\ mpc = "done" => alias_i = Len(generate_aliases(figure))
  /\ generate_aliases(<<"Z", "e", "u", "s">>) = <<<<"Z", "e", "u", "s">>, <<"J", "u", "p", "i", "t", "e", "r">>, <<"Z", "e", "u", "s", " ", "m", "y", "t", "h">>, <<"Z", "e", "u", "s", " ", "g", "r", "e", "e", "k">>>>

\* the four searches for Zeus with max_results 2: an answer of two IDs, a
\* failure, an answer that repeats one ID and brings the other first, an
\* empty answer; the merge ends with the two IDs in the order first seen
C16_Witness ==
  /\ mpc = "done" /\ figure = <<"Z", "e", "u", "s">> /\ max_results = 2 /\ alias_i = 4
  /\ returned[1].ids = <<102, 101>>
  /\ returned[2].failed
  /\ returned[3].ids = <<101, 102>> /\ returned[4].ids = << >> /\ ~returned[4].failed
  /\ all_ids = <<102, 101>>

====
